---- MODULE Spec2Model ----
(***************************************************************************)
(* Model of WCDB::Repair::Pager (src/repair/parse/Pager.cpp): the          *)
(* page-access layer of the repair kit.  One action per public operation;  *)
(* the collaborators that are not part of Pager.cpp (FileManager,          *)
(* FileHandle, Wal, Deserialization, Error, Initializeable) are modelled   *)
(* at their interface.                                                     *)
(***************************************************************************)
EXTENDS Integers, Sequences, FiniteSets, TLC

VARIABLES
    state,            \* Initializeable state of the Pager
    m_pageSize,       \* Pager::m_pageSize
    m_reservedBytes,  \* Pager::m_reservedBytes
    m_numberOfPages,  \* Pager::m_numberOfPages
    m_fileSize,       \* Pager::m_fileSize
    m_walImportance,  \* Pager::m_walImportance
    m_error,          \* ErrorProne::m_error of the Pager (lastError)
    threadedError,    \* ThreadedErrors::shared(): last system error of the thread
    file,             \* the base file on disk: size and header bytes
    fhOpened,         \* FileHandle::isOpened()
    fhPageSize,       \* page size handed to FileHandle::setPageSize
    walPages,         \* page numbers the Wal holds a frame for
    walFrames,        \* Wal::getNumberOfFrames()
    walDisposed,      \* Wal::getDisposedPages()
    walShmLegality,   \* flag handed to Wal::setShmLegality
    walMaxFrame,      \* bound handed to Wal::setMaxAllowedFrame
    initLog,          \* steps executed by doInitialize, in order
    last,             \* what the most recent operation did and returned
    notified,         \* events published to Notifier by the most recent operation
    assertFailed,     \* a WCTInnerAssert was violated by the most recent operation
    crashed           \* the process took a hardware trap (integer division by zero)

vars == <<state, m_pageSize, m_reservedBytes, m_numberOfPages, m_fileSize,
          m_walImportance, m_error, threadedError, file, fhOpened, fhPageSize,
          walPages, walFrames, walDisposed, walShmLegality, walMaxFrame,
          initLog, last, notified, assertFailed, crashed>>

----------------------------------------------------------------------------
(* Bounds of the model *)

MaxWalPage == 3
MaxPageArg == 4

(* Program constants *)

Unknown == -1
HeaderSize == 100
SignatureSize == 16
MinPageSize == 512
MaxPageSize == 65536
MaxReservedBytes == 255
NoFrameLimit == 2147483647

\* "SQLite format 3\000"
Signature == <<83, 81, 76, 105, 116, 101, 32, 102, 111, 114, 109, 97, 116, 32, 51, 0>>

----------------------------------------------------------------------------
(* Arithmetic helpers *)

Min(a, b) == IF a < b THEN a ELSE b
Max(a, b) == IF a > b THEN a ELSE b
SetMax(S) == IF S = {} THEN 0 ELSE CHOOSE x \in S : \A y \in S : y <= x

\* C integer division truncates toward zero (b # 0)
TruncDiv(a, b) ==
    IF (a >= 0 /\ b > 0) \/ (a <= 0 /\ b < 0)
    THEN (IF a >= 0 THEN a ELSE -a) \div (IF b >= 0 THEN b ELSE -b)
    ELSE -((IF a >= 0 THEN a ELSE -a) \div (IF b >= 0 THEN b ELSE -b))

\* bitwise & on two's complement integers
RECURSIVE BitAnd(_, _)
BitAnd(a, b) ==
    IF a = 0 \/ b = 0 THEN 0
    ELSE IF a = -1 THEN b
    ELSE IF b = -1 THEN a
    ELSE (a % 2) * (b % 2) + 2 * BitAnd((a - (a % 2)) \div 2, (b - (b % 2)) \div 2)

----------------------------------------------------------------------------
(* Errors *)

NoError == [code |-> "None", page |-> 0, src |-> ""]
CodeError(code) == [code |-> code, page |-> 0, src |-> "repair"]
CorruptError(page) == [code |-> "Corrupt", page |-> page, src |-> "repair"]
IOError(src) == [code |-> "IOFailure", page |-> 0, src |-> src]
WalCorruptError == [code |-> "Corrupt", page |-> 0, src |-> "wal"]

isCorruption(e) == e.code = "Corrupt"

Event(e, level) == [code |-> e.code, page |-> e.page, level |-> level]

----------------------------------------------------------------------------
(* The environment: files on disk and the outcomes of the collaborators *)

BadTail == [Signature EXCEPT ![16] = 32]
BadHead == [Signature EXCEPT ![1] = 115]

File(size, sig, b16, b17, b20) ==
    [size |-> size, sig |-> sig, b16 |-> b16, b17 |-> b17, b20 |-> b20]

\* header page-size fields: 512 .. 32768, and 0, 1, 256, 768, 513
PageSizeFields ==
    {<<2, 0>>, <<4, 0>>, <<8, 0>>, <<16, 0>>, <<32, 0>>, <<64, 0>>, <<128, 0>>,
     <<0, 0>>, <<0, 1>>, <<1, 0>>, <<3, 0>>, <<2, 1>>}

\* files for the study of initialization: every header page-size field above
HeaderFiles ==
    {File(0, Signature, 2, 0, 0), File(50, Signature, 2, 0, 0),
     File(50, BadHead, 2, 0, 0), File(100, Signature, 4, 0, 0)}
    \cup {File(1025, Signature, f[1], f[2], r) : f \in PageSizeFields, r \in {0, 255}}
    \cup {File(1024, s, 2, 0, 0) : s \in {BadTail, BadHead}}
    \cup {File(1024, BadHead, 3, 0, 0)}

\* files for the study of reads: 3 pages of 512 bytes, 2 pages of 1024 bytes,
\* a foreign file, a truncated file and an empty file
Files ==
    {File(1025, Signature, 2, 0, 8), File(2048, Signature, 4, 0, 0),
     File(1024, BadHead, 2, 0, 0), File(50, Signature, 2, 0, 0),
     File(0, Signature, 2, 0, 0)}

PageSizeArgs == {0, 512, 1000, 65536, 131072, -2}
ReservedBytesArgs == {255, 256, -2}

\* FileManager::getFileSize: <<succeed, size>>
getFileSize(statOK) == IF statOK THEN <<TRUE, file.size>> ELSE <<FALSE, 0>>

WalPageSets == {{}, {1}, {1, MaxWalPage}}

WalOutcomes ==
    {[ok |-> TRUE, kind |-> "None", pages |-> P] : P \in WalPageSets}
    \cup {[ok |-> FALSE, kind |-> k, pages |-> P] :
            k \in {"Corrupt", "IOFailure"}, P \in {{}, {1}}}

----------------------------------------------------------------------------
(* Collaborators of the Pager *)

\* Deserialization::advance2BytesInt / advance1ByteInt: big-endian unsigned
advance2BytesInt(b1, b2) == b1 * 256 + b2
advance1ByteInt(b) == b

\* Wal::getMaxPageno
getMaxPageno(pages) == SetMax(pages)

\* Wal::containsPage
containsPage(pages, number) == number \in pages

\* Wal::dispose: drops every page, remembers how many were dropped
WalDispose(pages) == [pages |-> {}, frames |-> 0, disposed |-> Cardinality(pages)]

\* lengths a mapping of `size` bytes can come back with: empty, short, whole
MapLens(size) == {0, size \div 2, size}

----------------------------------------------------------------------------
(* Pager: pieces of the code *)

\* Pager.cpp:203-207: the error of a file of size zero; thr is the threaded error
ZeroSizeError_AlwaysEmpty(succeed, thr) == CodeError("Empty")
ZeroSizeError(succeed, thr) == IF succeed THEN CodeError("Empty") ELSE thr

\* Pager.cpp:216
NeedsHeader(ps, rb) == ps = Unknown \/ rb = Unknown

SignatureMismatch_NoTrailingNul(sig) ==
    \E i \in 1..(SignatureSize - 1) : sig[i] # Signature[i]

\* Pager.cpp:222  memcmp(data.buffer(), "SQLite format 3\000", 16) != 0
SignatureMismatch(sig) == \E i \in 1..SignatureSize : sig[i] # Signature[i]

PageSizeIllegal_NoAlignment(ps) == ps < MinPageSize \/ ps > MaxPageSize

\* Pager.cpp:240
PageSizeIllegal(ps) ==
    BitAnd(ps - 1, ps) # 0 \/ ps < MinPageSize \/ ps > MaxPageSize

ReservedBytesIllegal_OffByOne(rb) == rb < 0 \/ rb > MaxReservedBytes + 1

\* Pager.cpp:245
ReservedBytesIllegal(rb) == rb < 0 \/ rb > MaxReservedBytes

PageCount_Floor(fs, ps) == fs \div ps

\* Pager.cpp:253
PageCount(fs, ps) == (fs + ps - 1) \div ps

WalFailureFatal_ImportanceOnly(importance, err) == importance

\* Pager.cpp:258
WalFailureFatal(importance, err) == importance \/ ~isCorruption(err)

\* Pager.cpp:68
getNumberOfPages == Max(getMaxPageno(walPages), m_numberOfPages)

PageSource_RangeFirst(number, pages, nPages) ==
    IF number > nPages THEN "none"
    ELSE IF containsPage(pages, number) THEN "wal"
    ELSE "file"

PageSource_TotalCount(number, pages, nPages) ==
    IF containsPage(pages, number) THEN "wal"
    ELSE IF number > Max(getMaxPageno(pages), nPages) THEN "none"
    ELSE "file"

\* Pager.cpp:100-110: where acquirePageData takes the page from
PageSource(number, pages, nPages) ==
    IF containsPage(pages, number) THEN "wal"
    ELSE IF number > nPages THEN "none"
    ELSE "file"

SizeMismatch_OnlyEmpty(len, size) == len = 0 /\ size > 0

\* Pager.cpp:111, 130
SizeMismatch(len, size) == len # size

IsShortRead_Always(len) == len >= 0

\* Pager.cpp:112, 131
IsShortRead(len) == len > 0

ShortReadPage_ZeroBased(offset, ps) == TruncDiv(offset, ps)

\* Pager.cpp:114, 132  (int) (offset / m_pageSize + 1), m_pageSize # 0
ShortReadPage(offset, ps) == TruncDiv(offset, ps) + 1

ValidateData_ClearsError(offset, size, len, ps, err, thr, ub) ==
    IF SizeMismatch(len, size)
    THEN IF IsShortRead(len)
         THEN IF ps = 0 /\ ub = "trap"
              THEN [null |-> TRUE, len |-> 0, error |-> err, crashed |-> TRUE,
                    events |-> <<>>]
              ELSE LET page == IF ps = 0 THEN 1 ELSE ShortReadPage(offset, ps)
                   IN [null |-> TRUE, len |-> 0, error |-> CorruptError(page),
                       crashed |-> FALSE,
                       events |-> <<Event(CorruptError(page), "Ignore")>>]
         ELSE [null |-> TRUE, len |-> 0, error |-> thr, crashed |-> FALSE,
               events |-> <<>>]
    ELSE [null |-> FALSE, len |-> len, error |-> NoError, crashed |-> FALSE,
          events |-> <<>>]

\* Pager.cpp:111-123, 130-141: validation of a mapped range of length len.
\* thr is the threaded error after the mapping call, ub the outcome of an
\* integer division by zero ("trap" or "zero" quotient).
ValidateData(offset, size, len, ps, err, thr, ub) ==
    IF SizeMismatch(len, size)
    THEN IF IsShortRead(len)
         THEN IF ps = 0 /\ ub = "trap"
              THEN [null |-> TRUE, len |-> 0, error |-> err, crashed |-> TRUE,
                    events |-> <<>>]
              ELSE LET page == IF ps = 0 THEN 1 ELSE ShortReadPage(offset, ps)
                   IN [null |-> TRUE, len |-> 0, error |-> CorruptError(page),
                       crashed |-> FALSE,
                       events |-> <<Event(CorruptError(page), "Ignore")>>]
         ELSE [null |-> TRUE, len |-> 0, error |-> thr, crashed |-> FALSE,
               events |-> <<>>]
    ELSE [null |-> FALSE, len |-> len, error |-> err, crashed |-> FALSE,
          events |-> <<>>]

\* FileHandle::map / mapPage / Wal::acquirePageData: an empty mapping of a
\* non-empty range is a system failure that is left in the threaded error
AfterMap(len, size, thr, src) == IF len = 0 /\ size > 0 THEN IOError(src) ELSE thr

\* Pager.cpp:126-142
acquireData(offset, size, len, ps, err, thr, ub) ==
    LET thr2 == AfterMap(len, size, thr, "map")
        v == ValidateData(offset, size, len, ps, err, thr2, ub)
    IN [null |-> v.null, len |-> v.len, error |-> v.error, threaded |-> thr2,
        crashed |-> v.crashed, events |-> v.events]

----------------------------------------------------------------------------
(* Pager::doInitialize, Pager.cpp:198-263 *)

\* the fields doInitialize can write, before it has written any
InitStart ==
    [ok |-> FALSE, crashed |-> FALSE, fileSize |-> m_fileSize,
     pageSize |-> m_pageSize, reservedBytes |-> m_reservedBytes,
     numberOfPages |-> m_numberOfPages, error |-> m_error,
     threaded |-> threadedError, opened |-> fhOpened, fhPageSize |-> fhPageSize,
     walPages |-> walPages, walFrames |-> walFrames, walDisposed |-> walDisposed,
     log |-> <<>>, events |-> <<>>]

\* one step of doInitialize and how it came out
Step(step, out) == <<step, out>>

\* Pager.cpp:255-262: m_wal.initialize() and the importance policy.
\* A failing Wal records its error on the Pager it refers back to.
InitWal(r, w) ==
    LET r1 == [r EXCEPT !.log = Append(@, Step("wal.initialize",
                                               IF w.ok THEN "ok" ELSE w.kind)),
                        !.walPages = w.pages,
                        !.walFrames = Cardinality(w.pages)]
    IN IF w.ok THEN [r1 EXCEPT !.ok = TRUE]
       ELSE LET werr == IF w.kind = "Corrupt" THEN WalCorruptError ELSE IOError("wal")
                r2 == [r1 EXCEPT !.error = werr,
                                 !.threaded = IF w.kind = "Corrupt" THEN @ ELSE werr,
                                 !.events = IF w.kind = "Corrupt"
                                            THEN Append(@, Event(werr, "Ignore")) ELSE @]
            IN IF WalFailureFatal(m_walImportance, r2.error)
               THEN r2
               ELSE LET d == WalDispose(r2.walPages)
                    IN [r2 EXCEPT !.ok = TRUE,
                                  !.log = Append(@, Step("wal.dispose", "ok")),
                                  !.walPages = d.pages,
                                  !.walFrames = d.frames,
                                  !.walDisposed = d.disposed]

InitGeometry_NoReturn(r, w) ==
    LET bad == PageSizeIllegal(r.pageSize) \/ ReservedBytesIllegal(r.reservedBytes)
        r1 == IF bad
              THEN [r EXCEPT !.log = Append(@, Step("validate", "illegal")),
                             !.error = CorruptError(1),
                             !.events = Append(@, Event(CorruptError(1), "Ignore"))]
              ELSE [r EXCEPT !.log = Append(@, Step("validate", "ok"))]
    IN InitWal([r1 EXCEPT !.fhPageSize = r.pageSize,
                          !.numberOfPages = IF r.pageSize = 0 THEN 0
                                            ELSE PageCount(r.fileSize, r.pageSize),
                          !.log = @ \o <<Step("fh.setPageSize", "ok"),
                                         Step("count", "ok")>>], w)

\* Pager.cpp:240-253: geometry validation, FileHandle::setPageSize, page count
InitGeometry(r, w) ==
    IF PageSizeIllegal(r.pageSize) \/ ReservedBytesIllegal(r.reservedBytes)
    THEN [r EXCEPT !.log = Append(@, Step("validate", "illegal")),
                   !.error = CorruptError(1),
                   !.events = Append(@, Event(CorruptError(1), "Ignore"))]
    ELSE InitWal([r EXCEPT !.fhPageSize = r.pageSize,
                           !.numberOfPages = PageCount(r.fileSize, r.pageSize),
                           !.log = @ \o <<Step("validate", "ok"),
                                          Step("fh.setPageSize", "ok"),
                                          Step("count", "ok")>>], w)

ParseHeader_AlwaysPageSize(r) ==
    LET r1 == [r EXCEPT !.pageSize = advance2BytesInt(file.b16, file.b17),
                        !.log = Append(@, Step("parse.pageSize", "ok"))]
    IN IF r1.reservedBytes = Unknown
       THEN [r1 EXCEPT !.reservedBytes = advance1ByteInt(file.b20),
                       !.log = Append(@, Step("parse.reservedBytes", "ok"))]
       ELSE r1

\* Pager.cpp:226-238: the fields still unknown are taken from the header
ParseHeader(r) ==
    LET r1 == IF r.pageSize = Unknown
              THEN [r EXCEPT !.pageSize = advance2BytesInt(file.b16, file.b17),
                             !.log = Append(@, Step("parse.pageSize", "ok"))]
              ELSE r
    IN IF r1.reservedBytes = Unknown
       THEN [r1 EXCEPT !.reservedBytes = advance1ByteInt(file.b20),
                       !.log = Append(@, Step("parse.reservedBytes", "ok"))]
       ELSE r1

\* Pager.cpp:216-225: header sniffing
InitHeader(r, hdrLen, w, ub) ==
    IF ~NeedsHeader(r.pageSize, r.reservedBytes) THEN InitGeometry(r, w)
    ELSE
    LET d == acquireData(0, HeaderSize, hdrLen, r.pageSize, r.error, r.threaded, ub)
        r1 == [r EXCEPT !.log = Append(@, Step("map",
                                   IF hdrLen = 0 THEN "empty"
                                   ELSE IF hdrLen < HeaderSize THEN "short" ELSE "whole")),
                        !.threaded = d.threaded,
                        !.error = d.error,
                        !.events = @ \o d.events]
    IN IF d.crashed THEN [r1 EXCEPT !.crashed = TRUE]
       ELSE IF d.null
       THEN \* Pager.cpp:218-221: data.empty() -> assignWithSharedThreadedError()
            [r1 EXCEPT !.error = d.threaded]
       ELSE IF SignatureMismatch(file.sig)
       THEN [r1 EXCEPT !.log = Append(@, Step("signature", "mismatch")),
                       !.error = CodeError("NotADatabase"),
                       !.events = Append(@, Event(CodeError("NotADatabase"), "Ignore"))]
       ELSE InitGeometry(
              ParseHeader([r1 EXCEPT !.log = Append(@, Step("signature", "ok"))]), w)

\* Pager.cpp:198-214: stat and open
doInitialize(statOK, openOK, hdrLen, w, ub) ==
    LET st == getFileSize(statOK)
        r0 == [InitStart EXCEPT !.fileSize = st[2],
                                !.log = <<Step("stat", IF st[1] THEN "ok" ELSE "failed")>>]
        thr == IF st[1] THEN threadedError ELSE IOError("stat")
    IN IF st[2] = 0
       THEN LET e == ZeroSizeError(st[1], thr)
            IN [r0 EXCEPT !.error = e, !.threaded = thr,
                          !.events = IF e.code = "Empty"
                                     THEN <<Event(e, "Ignore")>> ELSE <<>>]
       ELSE IF ~openOK
       THEN [r0 EXCEPT !.log = Append(@, Step("open", "failed")),
                       !.error = IOError("open"), !.threaded = IOError("open")]
       ELSE InitHeader([r0 EXCEPT !.log = Append(@, Step("open", "ok")),
                                  !.opened = TRUE],
                       hdrLen, w, ub)

----------------------------------------------------------------------------
(* State machine *)

Idle(op) == [op |-> op, number |-> 0, offset |-> 0, size |-> 0,
             source |-> "", len |-> 0, null |-> FALSE, ret |-> 0]

Fresh ==
    /\ state = "Uninitialized"
    /\ m_pageSize = Unknown
    /\ m_reservedBytes = Unknown
    /\ m_numberOfPages = 0
    /\ m_fileSize = 0
    /\ m_walImportance = TRUE
    /\ m_error = NoError
    /\ threadedError = NoError
    /\ fhOpened = FALSE
    /\ fhPageSize = 0
    /\ walPages = {}
    /\ walFrames = 0
    /\ walDisposed = 0
    /\ walShmLegality = TRUE
    /\ walMaxFrame = NoFrameLimit
    /\ initLog = <<>>
    /\ last = Idle("new")
    /\ notified = <<>>
    /\ assertFailed = FALSE
    /\ crashed = FALSE

Init == Fresh /\ file \in Files

InitHeaders == Fresh /\ file \in HeaderFiles

isInitialized == state = "Initialized"

\* Initializeable::initialize(): runs doInitialize once, from the fresh state
Initialize ==
    /\ ~crashed
    /\ state = "Uninitialized"
    /\ \E statOK \in BOOLEAN, openOK \in BOOLEAN,
          hdrLen \in {0, Min(HeaderSize, file.size)},
          w \in WalOutcomes, ub \in {"trap", "zero"} :
        /\ Cardinality(w.pages) <= walMaxFrame
        /\ LET r == doInitialize(statOK, openOK, hdrLen, w, ub)
           IN /\ state' = IF r.crashed THEN "Initializing"
                          ELSE IF r.ok THEN "Initialized" ELSE "Failed"
              /\ crashed' = r.crashed
              /\ m_fileSize' = r.fileSize
              /\ m_pageSize' = r.pageSize
              /\ m_reservedBytes' = r.reservedBytes
              /\ m_numberOfPages' = r.numberOfPages
              /\ m_error' = r.error
              /\ threadedError' = r.threaded
              /\ fhOpened' = r.opened
              /\ fhPageSize' = r.fhPageSize
              /\ walPages' = r.walPages
              /\ walFrames' = r.walFrames
              /\ walDisposed' = r.walDisposed
              /\ initLog' = r.log
              /\ notified' = r.events
              /\ last' = [Idle("initialize") EXCEPT !.null = ~r.ok]
    /\ assertFailed' = FALSE
    /\ UNCHANGED <<m_walImportance, file, walShmLegality, walMaxFrame>>

\* Pager.cpp:47-51
setPageSize ==
    /\ ~crashed
    /\ \E n \in PageSizeArgs :
        /\ assertFailed' = isInitialized
        /\ m_pageSize' = IF isInitialized THEN m_pageSize ELSE n
        /\ last' = Idle("setPageSize")
    /\ notified' = <<>>
    /\ UNCHANGED <<state, m_reservedBytes, m_numberOfPages, m_fileSize,
                   m_walImportance, m_error, threadedError, file, fhOpened,
                   fhPageSize, walPages, walFrames, walDisposed, walShmLegality,
                   walMaxFrame, initLog, crashed>>

\* Pager.cpp:53-57
setReservedBytes ==
    /\ ~crashed
    /\ \E n \in ReservedBytesArgs :
        /\ assertFailed' = isInitialized
        /\ m_reservedBytes' = IF isInitialized THEN m_reservedBytes ELSE n
        /\ last' = Idle("setReservedBytes")
    /\ notified' = <<>>
    /\ UNCHANGED <<state, m_pageSize, m_numberOfPages, m_fileSize,
                   m_walImportance, m_error, threadedError, file, fhOpened,
                   fhPageSize, walPages, walFrames, walDisposed, walShmLegality,
                   walMaxFrame, initLog, crashed>>

\* in-page ranges asked of acquirePageData: the whole page (the one-argument
\* overload, Pager.cpp:89-92), the last bytes of the page, an empty range
PageRanges(ps) == {<<0, ps>>, <<ps - 8, 8>>, <<16, 0>>}

\* raw file offsets asked of acquireData
DataOffsets == {0, 1030}

\* Pager.cpp:94-124
acquirePageData ==
    /\ ~crashed
    /\ isInitialized
    /\ \E number \in 1..MaxPageArg, rg \in PageRanges(m_pageSize) :
        LET offset == rg[1]
            size == rg[2]
            source == PageSource(number, walPages, m_numberOfPages)
        IN /\ offset + size <= m_pageSize
           /\ IF source = "none"
              THEN /\ m_error' = CorruptError(number)
                   /\ notified' = <<Event(CorruptError(number), "Ignore")>>
                   /\ last' = [op |-> "acquirePageData", number |-> number,
                               offset |-> offset, size |-> size, source |-> source,
                               len |-> 0, null |-> TRUE, ret |-> 0]
                   /\ UNCHANGED <<threadedError, crashed>>
              ELSE \E len \in MapLens(size), ub \in {"trap", "zero"} :
                   LET thr == AfterMap(len, size, threadedError,
                                       IF source = "wal" THEN "wal" ELSE "mapPage")
                       v == ValidateData(offset, size, len, m_pageSize, m_error, thr, ub)
                   IN /\ m_error' = v.error
                      /\ threadedError' = thr
                      /\ crashed' = v.crashed
                      /\ notified' = v.events
                      /\ last' = [op |-> "acquirePageData", number |-> number,
                                  offset |-> offset, size |-> size,
                                  source |-> source, len |-> len,
                                  null |-> v.null, ret |-> v.len]
    /\ assertFailed' = FALSE
    /\ UNCHANGED <<state, m_pageSize, m_reservedBytes, m_numberOfPages, m_fileSize,
                   m_walImportance, file, fhOpened, fhPageSize, walPages, walFrames,
                   walDisposed, walShmLegality, walMaxFrame, initLog>>

\* Pager.cpp:126-142, called by a user of an initialized Pager
acquireDataCall ==
    /\ ~crashed
    /\ isInitialized
    /\ fhOpened
    /\ \E offset \in DataOffsets, len \in MapLens(HeaderSize), ub \in {"trap", "zero"} :
        LET d == acquireData(offset, HeaderSize, len, m_pageSize, m_error,
                             threadedError, ub)
        IN /\ m_error' = d.error
           /\ threadedError' = d.threaded
           /\ crashed' = d.crashed
           /\ notified' = d.events
           /\ last' = [op |-> "acquireData", number |-> 0, offset |-> offset,
                       size |-> HeaderSize, source |-> "file", len |-> len,
                       null |-> d.null, ret |-> d.len]
    /\ assertFailed' = FALSE
    /\ UNCHANGED <<state, m_pageSize, m_reservedBytes, m_numberOfPages, m_fileSize,
                   m_walImportance, file, fhOpened, fhPageSize, walPages, walFrames,
                   walDisposed, walShmLegality, walMaxFrame, initLog>>

\* Pager.cpp:145-149
setWalImportance ==
    /\ ~crashed
    /\ \E flag \in BOOLEAN :
        /\ m_walImportance' = flag
        /\ walShmLegality' = flag
    /\ last' = Idle("setWalImportance")
    /\ notified' = <<>>
    /\ assertFailed' = FALSE
    /\ UNCHANGED <<state, m_pageSize, m_reservedBytes, m_numberOfPages, m_fileSize,
                   m_error, threadedError, file, fhOpened, fhPageSize, walPages,
                   walFrames, walDisposed, walMaxFrame, initLog, crashed>>

\* Pager.cpp:151-154
setMaxWalFrame ==
    /\ ~crashed
    /\ \E maxWalFrame \in {1} : walMaxFrame' = maxWalFrame
    /\ last' = Idle("setMaxWalFrame")
    /\ notified' = <<>>
    /\ assertFailed' = FALSE
    /\ UNCHANGED <<state, m_pageSize, m_reservedBytes, m_numberOfPages, m_fileSize,
                   m_walImportance, m_error, threadedError, file, fhOpened,
                   fhPageSize, walPages, walFrames, walDisposed, walShmLegality,
                   initLog, crashed>>

disposeWal_KeepsWal ==
    /\ ~crashed
    /\ last' = Idle("disposeWal")
    /\ notified' = <<>>
    /\ assertFailed' = FALSE
    /\ UNCHANGED <<state, m_pageSize, m_reservedBytes, m_numberOfPages, m_fileSize,
                   m_walImportance, m_error, threadedError, file, fhOpened,
                   fhPageSize, walPages, walFrames, walDisposed, walShmLegality,
                   walMaxFrame, initLog, crashed>>

\* Pager.cpp:161-164
disposeWal ==
    /\ ~crashed
    /\ LET d == WalDispose(walPages)
       IN /\ walPages' = d.pages
          /\ walFrames' = d.frames
          /\ walDisposed' = d.disposed
    /\ last' = Idle("disposeWal")
    /\ notified' = <<>>
    /\ assertFailed' = FALSE
    /\ UNCHANGED <<state, m_pageSize, m_reservedBytes, m_numberOfPages, m_fileSize,
                   m_walImportance, m_error, threadedError, file, fhOpened,
                   fhPageSize, walShmLegality, walMaxFrame, initLog, crashed>>

NoticeEvent == [code |-> "Notice", page |-> 0, level |-> "Notice"]

HintEvents_Always(initialized) == <<NoticeEvent>>

\* Pager.cpp:267-281: what hint publishes
HintEvents(initialized) == IF ~initialized THEN <<>> ELSE <<NoticeEvent>>

\* Pager.cpp:265-283; statOK is the outcome of the fresh getFileSize
hint ==
    /\ ~crashed
    /\ notified' = HintEvents(isInitialized)
    /\ IF ~isInitialized
       THEN /\ last' = Idle("hint")
            /\ UNCHANGED threadedError
       ELSE \E statOK \in BOOLEAN :
            /\ threadedError' = IF getFileSize(statOK)[1] THEN threadedError
                                ELSE IOError("stat")
            /\ last' = [Idle("hint") EXCEPT !.source = "wal.hint",
                                            !.null = ~getFileSize(statOK)[1],
                                            !.ret = getFileSize(statOK)[2]]
    /\ assertFailed' = FALSE
    /\ UNCHANGED <<state, m_pageSize, m_reservedBytes, m_numberOfPages, m_fileSize,
                   m_walImportance, m_error, file, fhOpened,
                   fhPageSize, walPages, walFrames, walDisposed, walShmLegality,
                   walMaxFrame, initLog, crashed>>

\* steps of the last doInitialize
Ran(step) == \E i \in 1..Len(initLog) : initLog[i][1] = step
Outcome(step) ==
    IF Ran(step)
    THEN initLog[CHOOSE i \in 1..Len(initLog) : initLog[i][1] = step][2]
    ELSE "skipped"

Next ==
    \/ Initialize
    \/ setPageSize
    \/ setReservedBytes
    \/ acquirePageData
    \/ acquireDataCall
    \/ setWalImportance
    \/ setMaxWalFrame
    \/ disposeWal
    \/ hint

Spec == Init /\ [][Next]_vars

\* initialization alone, over every header of HeaderFiles
NextInit ==
    \/ Initialize
    \/ setPageSize
    \/ setReservedBytes
    \/ setWalImportance
    \/ setMaxWalFrame

SpecInit == InitHeaders /\ [][NextInit]_vars

----------------------------------------------------------------------------
(* Properties *)

JustInitialized == last.op = "initialize" /\ ~crashed
JustRead == last.op \in {"acquirePageData", "acquireData"} /\ ~crashed

LegalPageSizes == {512, 1024, 2048, 4096, 8192, 16384, 32768, 65536}

\* the smallest n with n * ps >= fs, for ps >= MinPageSize
SmallestCover(fs, ps) ==
    CHOOSE n \in 0..(fs \div MinPageSize + 1) :
        /\ n * ps >= fs
        /\ \A k \in 0..(n - 1) : k * ps < fs

\* C1: a read on an initialized Pager returns a range of exactly the requested
\* length, or the null result with an error recorded as lastError; a shorter
\* range is never handed to the caller.
C1_ExactLengthOrNull ==
    (JustRead /\ isInitialized) =>
        \/ ~last.null /\ last.ret = last.size /\ last.len = last.size
        \/ /\ last.null
           /\ last.ret = 0
           /\ last.len # last.size \/ last.source = "none"
           /\ m_error.code \in {"Corrupt", "IOFailure"}

C1_Witness ==
    /\ JustRead /\ isInitialized
    /\ last.op = "acquirePageData"
    /\ 0 < last.len /\ last.len < last.size
    /\ last.null

\* C2: a page the Wal contains is read from the Wal and never mapped from the
\* base file, whether or not the base file has that page too.
C2_PageShadowing ==
    (JustRead /\ last.op = "acquirePageData" /\ containsPage(walPages, last.number))
        => last.source = "wal"

C2_Witness ==
    /\ JustRead /\ last.op = "acquirePageData"
    /\ containsPage(walPages, last.number)
    /\ last.number <= m_numberOfPages
    /\ ~last.null /\ last.ret = m_pageSize

\* C3: a page number above the base-file page count that the Wal does not
\* contain gives the null result and Corrupt tagged with that number, and the
\* base file is not mapped.
C3_OutOfRangePage ==
    (JustRead /\ last.op = "acquirePageData"
        /\ last.number > m_numberOfPages /\ ~containsPage(walPages, last.number))
        => /\ last.null
           /\ m_error = CorruptError(last.number)
           /\ last.source = "none"
           /\ notified = <<Event(CorruptError(last.number), "Ignore")>>

C3_Witness ==
    /\ JustRead /\ last.op = "acquirePageData"
    /\ last.number > m_numberOfPages /\ ~containsPage(walPages, last.number)
    /\ last.number <= getNumberOfPages
    /\ last.null

\* C4: in every Initialized state getNumberOfPages() is the larger of the Wal's
\* max page number and ceil(fileSize / pageSize), the latter at least 1.
C4_NumberOfPages ==
    isInitialized =>
        LET n == SmallestCover(file.size, m_pageSize)
            w == getMaxPageno(walPages)
        IN /\ m_fileSize = file.size
           /\ n >= 1
           /\ m_numberOfPages = n
           /\ getNumberOfPages = (IF w >= n THEN w ELSE n)
           /\ (walPages = {} => getNumberOfPages = n)

C4_Witness ==
    /\ isInitialized
    /\ getMaxPageno(walPages) > m_numberOfPages
    /\ m_numberOfPages * m_pageSize > m_fileSize
    /\ getNumberOfPages = MaxWalPage

\* C5: when the Wal fails to initialize, the Pager initializes iff the Wal is
\* unimportant and the failure is Corrupt, and then the Wal has been disposed;
\* otherwise the Pager fails and the Wal is not disposed.
C5_WalImportancePolicy ==
    (JustInitialized /\ Outcome("wal.initialize") \in {"Corrupt", "IOFailure"})
        => /\ isInitialized <=>
                (~m_walImportance /\ Outcome("wal.initialize") = "Corrupt")
           /\ isInitialized => (Ran("wal.dispose") /\ walFrames = 0 /\ walPages = {})
           /\ ~isInitialized => (state = "Failed" /\ ~Ran("wal.dispose"))

C5_Witness ==
    /\ JustInitialized /\ Outcome("wal.initialize") = "Corrupt"
    /\ isInitialized
    /\ walDisposed > 0 /\ walFrames = 0

\* C6: an Initialized Pager has a power-of-two page size in 512..65536 and
\* reserved bytes in 0..255, and both stay as they are from then on.
C6_GeometryLegal ==
    isInitialized =>
        /\ m_pageSize \in LegalPageSizes
        /\ m_reservedBytes \in 0..MaxReservedBytes

C6_GeometryInvariant ==
    /\ []C6_GeometryLegal
    /\ [][isInitialized =>
            (isInitialized' /\ m_pageSize' = m_pageSize
                            /\ m_reservedBytes' = m_reservedBytes)]_vars

C6_Witness ==
    /\ isInitialized
    /\ Ran("parse.pageSize") /\ ~Ran("parse.reservedBytes")
    /\ m_reservedBytes = MaxReservedBytes
    /\ last.op = "acquirePageData" /\ last.null

\* C7 (as stated): with no overrides and a Wal that initializes, a well-formed
\* header holding any page size of LegalPageSizes and any reserved-bytes value
\* initializes the Pager with exactly those values.  The two-byte field at
\* offset 16 holds 65536 as 1.
C7_HeaderGeometryParsed ==
    \A p \in LegalPageSizes :
        (/\ JustInitialized
         /\ Ran("parse.pageSize") /\ Ran("parse.reservedBytes")
         /\ Outcome("wal.initialize") \notin {"Corrupt", "IOFailure"}
         /\ file.b16 * 256 + file.b17 = (IF p = 65536 THEN 1 ELSE p))
            => /\ isInitialized
               /\ m_pageSize = p
               /\ m_reservedBytes = file.b20

\* C8: finalized geometry that is illegal fails initialization with Corrupt
\* tagged page 1, before the File Handle's page size is set, the page count
\* computed or the Wal initialized.
C8_IllegalGeometry ==
    (/\ JustInitialized
     /\ Ran("validate")
     /\ \/ m_pageSize \notin LegalPageSizes
        \/ m_reservedBytes \notin 0..MaxReservedBytes)
        => /\ state = "Failed"
           /\ m_error = CorruptError(1)
           /\ fhPageSize = 0 /\ ~Ran("fh.setPageSize")
           /\ m_numberOfPages = 0 /\ ~Ran("count")
           /\ ~Ran("wal.initialize")
           /\ walPages = {} /\ walFrames = 0

C8_Witness ==
    /\ JustInitialized
    /\ Outcome("validate") = "illegal"
    /\ m_pageSize = 1000
    /\ m_error = CorruptError(1)

\* C9: an empty file fails initialization with Empty after the stat alone; a
\* failed stat fails it with the system error of the stat, never with Empty.
C9_EmptyOrStatFailure ==
    JustInitialized =>
        /\ (Outcome("stat") = "ok" /\ file.size = 0) =>
              /\ state = "Failed"
              /\ m_error = CodeError("Empty")
              /\ initLog = <<Step("stat", "ok")>>
              /\ ~fhOpened /\ walPages = {}
        /\ Outcome("stat") = "failed" =>
              /\ state = "Failed"
              /\ m_error = IOError("stat")
              /\ initLog = <<Step("stat", "failed")>>
              /\ ~fhOpened /\ walPages = {}

C9_Witness ==
    /\ JustInitialized
    /\ Outcome("stat") = "ok" /\ file.size = 0
    /\ m_error.code = "Empty"

\* C10 (as stated): a non-empty, openable file with a foreign signature fails
\* initialization with NotADatabase under every configuration of overrides
\* (no mapping failure and no truncated header assumed).
C10_ForeignSignatureAlways ==
    (/\ JustInitialized
     /\ Outcome("stat") = "ok" /\ file.size >= HeaderSize /\ Outcome("open") = "ok"
     /\ Outcome("map") \in {"whole", "skipped"}
     /\ file.sig # Signature)
        => state = "Failed" /\ m_error.code = "NotADatabase"

\* C10 (amended): when at least one of page size and reserved bytes is unknown
\* and the whole header is read, a foreign signature fails initialization with
\* NotADatabase before the geometry is parsed or validated.
C10_ForeignSignature ==
    (/\ JustInitialized
     /\ Outcome("map") = "whole"
     /\ file.sig # Signature)
        => /\ state = "Failed"
           /\ m_error = CodeError("NotADatabase")
           /\ ~Ran("validate") /\ ~Ran("parse.pageSize") /\ ~Ran("parse.reservedBytes")
           /\ ~Ran("wal.initialize")

C10_Witness ==
    /\ JustInitialized
    /\ Outcome("signature") = "mismatch"
    /\ file.sig = BadTail
    /\ m_pageSize = 1000 /\ m_reservedBytes = Unknown
    /\ m_error.code = "NotADatabase"

\* C11: a mapped range shorter than asked but not empty records Corrupt, an
\* empty one records the system error of the mapping and not Corrupt; both
\* return the empty result.
C11_ShortVersusEmpty ==
    (JustRead /\ isInitialized /\ last.source # "none" /\ last.len # last.size) =>
        /\ last.null /\ last.ret = 0
        /\ (0 < last.len /\ last.len < last.size) =>
              /\ m_error.code = "Corrupt"
              /\ notified = <<Event(m_error, "Ignore")>>
        /\ last.len = 0 =>
              /\ m_error.code = "IOFailure"
              /\ m_error = threadedError
              /\ notified = <<>>

C11_Witness ==
    /\ JustRead /\ isInitialized
    /\ last.op = "acquireData"
    /\ last.len = 0 /\ last.size > 0
    /\ last.null
    /\ m_error.code = "IOFailure"

\* C12 (as stated): a setter called in any state but Uninitialized violates an
\* assertion and leaves pageSize and reservedBytes as they are.
C12_SettersOnlyUninitialized ==
    [][(last'.op \in {"setPageSize", "setReservedBytes"} /\ state # "Uninitialized")
        => /\ assertFailed'
           /\ m_pageSize' = m_pageSize
           /\ m_reservedBytes' = m_reservedBytes]_vars

\* C13: hint changes no field of the Pager in any state; it publishes nothing
\* and does not reach the Wal unless the Pager is Initialized, and then it
\* publishes one notice and calls the Wal's hint, whether the fresh stat
\* succeeds or not.
C13_HintReadOnly ==
    [][last'.op = "hint" =>
        /\ UNCHANGED <<state, m_pageSize, m_reservedBytes, m_numberOfPages,
                       m_fileSize, m_walImportance, m_error>>
        /\ ~assertFailed' /\ crashed' = crashed
        /\ IF isInitialized
           THEN notified' = <<NoticeEvent>> /\ last'.source = "wal.hint"
           ELSE notified' = <<>> /\ last'.source = ""]_vars

C13_Witness ==
    /\ last.op = "hint"
    /\ isInitialized
    /\ last.null
    /\ notified = <<NoticeEvent>>
    /\ m_error.code = "Corrupt"

\* the step of a behaviour in which Initialize runs
InitializeStep == state = "Uninitialized" /\ state' # "Uninitialized"

HeaderPageSize == file.b16 * 256 + file.b17

\* C14: the header is read iff page size or reserved bytes is still -1 when
\* the file has been opened; a field that was set keeps its value, and only a
\* field still unknown is taken from the header.
C14_OverridePrecedence ==
    [][(InitializeStep /\ ~crashed') =>
        /\ Outcome("open")' = "ok" =>
              (Ran("map")' <=> (m_pageSize = Unknown \/ m_reservedBytes = Unknown))
        /\ Ran("signature")' <=> Outcome("map")' = "whole"
        /\ m_pageSize # Unknown =>
              (m_pageSize' = m_pageSize /\ ~Ran("parse.pageSize")')
        /\ m_reservedBytes # Unknown =>
              (m_reservedBytes' = m_reservedBytes /\ ~Ran("parse.reservedBytes")')
        /\ (m_pageSize = Unknown /\ Outcome("signature")' = "ok") =>
              (m_pageSize' = HeaderPageSize /\ Ran("parse.pageSize")')
        /\ (m_reservedBytes = Unknown /\ Outcome("signature")' = "ok") =>
              (m_reservedBytes' = file.b20 /\ Ran("parse.reservedBytes")')
        /\ (m_pageSize = Unknown /\ Outcome("signature")' # "ok") =>
              m_pageSize' = Unknown
        /\ (m_reservedBytes = Unknown /\ Outcome("signature")' # "ok") =>
              m_reservedBytes' = Unknown]_vars

C14_Witness ==
    /\ JustInitialized /\ isInitialized
    /\ Ran("map") /\ ~Ran("parse.pageSize") /\ Ran("parse.reservedBytes")
    /\ m_pageSize = 65536 /\ HeaderPageSize = 512
    /\ m_reservedBytes = file.b20 /\ file.b20 = MaxReservedBytes

\* the order of the steps of doInitialize
StepOrder ==
    <<"stat", "open", "map", "signature", "parse.pageSize", "parse.reservedBytes",
      "validate", "fh.setPageSize", "count", "wal.initialize", "wal.dispose">>

Rank(step) == CHOOSE i \in 1..Len(StepOrder) : StepOrder[i] = step

FailureOutcomes == {"failed", "empty", "short", "mismatch", "illegal"}

C15_Steps ==
    /\ state = "Uninitialized" <=> initLog = <<>>
    /\ \A i \in 1..Len(initLog) :
        /\ initLog[i][1] \in {StepOrder[k] : k \in 1..Len(StepOrder)}
        /\ \A j \in 1..Len(initLog) :
              i < j => Rank(initLog[i][1]) < Rank(initLog[j][1])
        /\ initLog[i][2] \in FailureOutcomes => i = Len(initLog)
        /\ (initLog[i][1] = "wal.initialize" /\ initLog[i][2] # "ok") =>
              \/ i = Len(initLog)
              \/ i + 1 = Len(initLog) /\ initLog[i + 1][1] = "wal.dispose"
    /\ Ran("open") => Outcome("stat") = "ok"
    /\ Ran("map") => Outcome("open") = "ok"
    /\ Ran("validate") => (Outcome("open") = "ok" /\ (Ran("map") => Outcome("signature") = "ok"))
    /\ Ran("fh.setPageSize") <=> Outcome("validate") = "ok"
    /\ Ran("count") <=> Ran("fh.setPageSize")
    /\ Ran("wal.initialize") <=> Ran("count")
    /\ Ran("wal.dispose") => Outcome("wal.initialize") = "Corrupt"
    /\ state = "Initializing" <=> crashed
    /\ isInitialized <=>
          \/ Outcome("wal.initialize") = "ok"
          \/ Ran("wal.dispose")

\* C15: the Pager leaves Uninitialized once, for Initialized or Failed, and
\* never leaves Initialized; the steps of doInitialize run in order, each at
\* most once, nothing runs after a failed step, and the Pager is Initialized
\* only if every step succeeded or the Wal failure was waived.
C15_InitializationOrder ==
    /\ []C15_Steps
    /\ [][/\ state' # state => state = "Uninitialized"
          /\ initLog' # initLog => InitializeStep]_vars

C15_Witness ==
    /\ JustInitialized /\ isInitialized
    /\ Len(initLog) = Len(StepOrder)

\* C16: the Corrupt error of a short read is tagged offset / pageSize + 1: for
\* acquireData the 1-based page holding the raw offset, for acquirePageData
\* the value computed from the in-page offset, whatever the page number and
\* whether the data came from the Wal or the base file.
C16_ShortReadTag ==
    (JustRead /\ isInitialized /\ 0 < last.len /\ last.len < last.size) =>
        /\ m_error = CorruptError(last.offset \div m_pageSize + 1)
        /\ (m_error.page - 1) * m_pageSize <= last.offset
        /\ last.offset < m_error.page * m_pageSize
        /\ last.op = "acquirePageData" => m_error.page = 1

C16_Witness ==
    /\ JustRead /\ isInitialized
    /\ last.op = "acquirePageData" /\ last.source = "wal"
    /\ last.number = MaxWalPage
    /\ 0 < last.len /\ last.len < last.size
    /\ last.offset > 0
    /\ m_error = CorruptError(1)

\* C17: once the Wal is disposed, by disposeWal or by the importance policy,
\* it stays empty and acquirePageData reads the base file only: pages within
\* the base page count are mapped from the File Handle, pages above it give
\* null and Corrupt tagged with the page number.
C17_BaseOnlyReads ==
    (JustRead /\ last.op = "acquirePageData" /\ walPages = {}) =>
        /\ last.source # "wal"
        /\ last.number <= m_numberOfPages => last.source = "file"
        /\ last.number > m_numberOfPages =>
              (last.source = "none" /\ last.null /\ m_error = CorruptError(last.number))

C17_AfterDispose ==
    /\ [](C17_BaseOnlyReads /\ (Ran("wal.dispose") => walPages = {}))
    /\ [][/\ last'.op = "disposeWal" => (walPages' = {} /\ walFrames' = 0)
          /\ (state # "Uninitialized" /\ walPages = {}) => walPages' = {}]_vars

C17_Witness ==
    /\ JustRead /\ last.op = "acquirePageData"
    /\ walDisposed = 2 /\ walPages = {}
    /\ ~Ran("wal.dispose")
    /\ last.number = 1 /\ last.source = "file" /\ ~last.null

\* C18 (as stated): when the header read of initialization comes back short,
\* initialization fails and lastError is the Corrupt error of that short read.
C18_ShortHeaderError ==
    (JustInitialized /\ Outcome("map") = "short") =>
        /\ state = "Failed"
        /\ m_error.code = "Corrupt"

\* C19 (as stated): whatever was passed to setPageSize, initialization ends in
\* success or in a recorded error; no division by zero is reached.
C19_NoDivisionByZero ==
    /\ ~crashed
    /\ state # "Initializing"
    /\ JustInitialized => state \in {"Initialized", "Failed"}

\* C20: on an initialized Pager a successful read changes neither lastError
\* nor the geometry, counts and policy; lastError changes only in a failing
\* read, to the error of that read; fileSize and numberOfPages keep the values
\* of initialization.
C20_ReadFrame ==
    [][isInitialized =>
        /\ (last'.op \in {"acquirePageData", "acquireData"} /\ ~last'.null) =>
              UNCHANGED <<m_error, m_pageSize, m_reservedBytes, m_numberOfPages,
                          m_fileSize, m_walImportance, state>>
        /\ m_error' # m_error =>
              /\ last'.op \in {"acquirePageData", "acquireData"}
              /\ last'.null
              /\ \/ last'.source = "none" /\ m_error' = CorruptError(last'.number)
                 \/ last'.len > 0 /\ m_error'.code = "Corrupt"
                 \/ last'.len = 0 /\ m_error' = threadedError'
                                  /\ m_error'.code = "IOFailure"
        /\ m_fileSize' = m_fileSize /\ m_fileSize = file.size
        /\ m_numberOfPages' = m_numberOfPages]_vars

C20_Witness ==
    /\ JustRead /\ isInitialized
    /\ ~last.null /\ last.ret = last.size /\ last.size > 0
    /\ m_error.code = "Corrupt" /\ m_error.page = MaxPageArg
    /\ walDisposed > 0

====
